---- MODULE Spec2Model ----
(***************************************************************************)
(* Model of cleanup_ocr_doc.py: main() copies the architecture document to *)
(* <path>.backup, runs clean_architecture_doc over it and writes the       *)
(* result to <path>.cleaned, then prints a line-count summary.             *)
(*                                                                         *)
(* A line of text is a record [k, c, nl]: k is the kind of text the line   *)
(* holds (which of the substrings and patterns the filter looks for occur  *)
(* in it), c the identifier after `public class ` (or the class named by a *)
(* placeholder), nl whether the line ends with a newline character.        *)
(* Indices i, code_block_start, line_at are 0-based as in the source.      *)
(***************************************************************************)
EXTENDS Integers, Sequences, FiniteSets, TLC

\* ------------------------------------------------------------------ bounds
MaxLen == 3        \* longest document of the free-form family
MaxHead == 2       \* free-form lines at the start of a fence body
Slack == 1         \* fence bodies run from Threshold-1 to Threshold+Slack lines

\* -------------------------------------------------------- program constants
Threshold == 20

remove_classes ==
  << <<"CASStorage">>, <<"DocumentProcessingService">>, <<"ReceiptMapper">>,
     <<"W4Mapper">>, <<"MapperInitializer">>, <<"OcrService">>,
     <<"CachedOcrService">>, <<"OcrService", "ErrorHandler">>,
     <<"OfflineScanManager">>, <<"OcrProcessingErrorHandler">>,
     <<"CircuitBreakerOcrProxy">>, <<"OcrProcessingStateManager">>,
     <<"CameraServiceTests">>, <<"OCRServiceIntegrationTests">>,
     <<"Form1040Mapper">>, <<"RetryPolicyConfiguration">>,
     <<"ProcessingEntry">>, <<"CASStateRecovery">>,
     <<"PerformanceMonitor">>, <<"OCRResultCache">> >>

\* ------------------------------------------------------------ lines of text
Ln(k, c) == [k |-> k, c |-> c, nl |-> TRUE]

TextLine   == Ln("text", <<>>)                            \* prose
BlankLine  == Ln("blank", <<>>)                           \* whitespace only
ImplLine   == Ln("throw new", <<>>)                       \*   throw new X();
TryLine    == Ln("try", <<>>)                             \*   try
OpenBrace  == Ln("{", <<>>)                               \* {
CloseBrace == Ln("}", <<>>)                               \* }
CsFence    == Ln("fence cs", <<>>)                       \* opening marker tagged csharp or cs
Fence      == Ln("fence", <<>>)                             \* any other fence marker
DeclBrace  == Ln("public class {", <<"OcrService">>)      \* public class OcrService {
DeclBare   == Ln("public class", <<"OcrService">>)        \* public class OcrService
DeclBrace2 == Ln("public class {", <<"OcrService", "ErrorHandler">>)
DeclNested == Ln("public class { {", <<"OcrService">>)    \* public class OcrService { void F() {
CloseTwo   == Ln("} }", <<>>)                             \* } }

ClassPlaceholder(cls) == Ln("// class removed", cls)
FencePlaceholder == Ln("// code removed", <<>>)

IsPrefix(s, t) == Len(s) <= Len(t) /\ SubSeq(t, 1, Len(s)) = s

\* the test of line 54
DeclMatch(cls, l) ==
  l.k \in {"public class {", "public class { {", "public class"}
  /\ IsPrefix(cls, l.c)

\* the brace counts of lines 62-67
CountOpen(l) == IF l.k \in {"public class {", "{"} THEN 1
                ELSE IF l.k = "public class { {" THEN 2 ELSE 0
CountClose(l) == IF l.k = "}" THEN 1 ELSE IF l.k = "} }" THEN 2 ELSE 0

\* the test of line 72
IsCsFence(l) == l.k = "fence cs"
\* the fence test of line 79
HasFence(l) == l.k \in {"fence cs", "fence"}

\* re.search(pattern, block_content, re.MULTILINE) for some pattern: a line
\* that starts with one of the signatures, or `try` followed, across
\* whitespace (line ends and blank lines included), by `{`.
HasImpl(blk) ==
  \E j \in 1..Len(blk) :
     \/ blk[j].k = "throw new"
     \/ /\ blk[j].k = "try"
        /\ \E m \in (j+1)..Len(blk) :
              /\ blk[m].k = "{"
              /\ \A x \in (j+1)..(m-1) : blk[x].k = "blank"

\* lines 124-125: the number of pieces between newline characters
SplitCount(text) == Cardinality({j \in 1..Len(text) : text[j].nl}) + 1

\* line 129: sign and tenths of a percent, ties to even
PctFormat(d, n) ==
  LET a == IF d < 0 THEN -d ELSE d
      q == (1000 * a) \div n
      r == (1000 * a) % n
      t == IF 2 * r > n \/ (2 * r = n /\ q % 2 = 1) THEN q + 1 ELSE q
  IN  [neg |-> d < 0, tenths |-> t]

\* the least index above k0 of a class whose declaration occurs in l, or 0
NextMatch(l, k0) ==
  LET M == {m \in (k0+1)..Len(remove_classes) : DeclMatch(remove_classes[m], l)}
  IN  IF M = {} THEN 0 ELSE CHOOSE m \in M : \A x \in M : m <= x

\* --------------------------------------------------------------- documents
SeqsUpTo(S, n) == UNION {[1..m -> S] : m \in 0..n}

Fill(n) == [j \in 1..n |-> TextLine]

FreeKinds == {TextLine, CsFence, Fence, DeclBrace, DeclBare, DeclBrace2,
              OpenBrace, CloseBrace}
HeadKinds == (FreeKinds \ {Fence, DeclBrace2}) \cup {ImplLine, TryLine, BlankLine}
BraceKinds == {DeclNested, CloseTwo, CloseBrace, TextLine}

FreeDocs == SeqsUpTo(FreeKinds, MaxLen) \cup SeqsUpTo(BraceKinds, MaxLen)

FenceDocs ==
  { <<CsFence>> \o h \o Fill(b - Len(h)) \o <<Fence>> \o t :
      h \in SeqsUpTo(HeadKinds, MaxHead),
      b \in (Threshold - 1)..(Threshold + Slack),
      t \in SeqsUpTo({TextLine}, 1) }

\* the last line of a file may lack its newline
Unterminated(d) ==
  [j \in 1..Len(d) |-> IF j = Len(d) THEN [d[j] EXCEPT !.nl = FALSE] ELSE d[j]]

Docs == LET D == FreeDocs \cup FenceDocs
        IN  D \cup {Unterminated(d) : d \in D \ {<<>>}}

NoFile == [exists |-> FALSE, data |-> <<>>]
File(d) == [exists |-> TRUE, data |-> d]

\* ------------------------------------------------------------------- state
VARIABLES
  fs,                \* the three paths: orig, backup, cleaned
  pc,                \* position in main / clean_architecture_doc
  backup,            \* main: content read from the original
  cleaned,           \* main: result of clean_architecture_doc
  printed,           \* main: the summary printed
  lines,             \* clean_architecture_doc: f.readlines()
  output, in_code_block, code_block_start, i,
  line,              \* the line read at the top of the while loop
  line_at,           \* the index it was read at
  k,                 \* position of the for loop in remove_classes (1-based)
  brace_count,
  origin,            \* per output line: where it comes from
  examined,          \* indices read at the top of the while loop (line 50)
  consumed,          \* indices the inner while loop went over (lines 63-68)
  span_from,         \* value of i when the inner while loop was last entered
  pass               \* 1: the run of main, 2: the filter run on its own output

vars == <<fs, pc, backup, cleaned, printed, lines, output, in_code_block,
          code_block_start, i, line, line_at, k, brace_count, origin,
          examined, consumed, span_from, pass>>

mainVars == <<backup, cleaned, printed>>
scanVars == <<lines, output, in_code_block, code_block_start, i, line,
              line_at, k, brace_count, origin, examined, consumed,
              span_from>>

NoLine == Ln("", <<>>)
NoSummary == [original |-> 0, cleaned |-> 0, removed |-> 0,
              pct |-> [neg |-> FALSE, tenths |-> 0]]

Init ==
  /\ fs \in {[orig |-> File(d), backup |-> NoFile, cleaned |-> NoFile] : d \in Docs}
  /\ pc = "m_read"
  /\ backup = <<>> /\ cleaned = <<>> /\ printed = NoSummary
  /\ lines = <<>> /\ output = <<>> /\ in_code_block = FALSE
  /\ code_block_start = -1 /\ i = 0 /\ line = NoLine /\ line_at = -1
  /\ k = 0 /\ brace_count = 0 /\ origin = <<>>
  /\ examined = {} /\ consumed = {} /\ span_from = 0
  /\ pass = 1

\* -------------------------------------------------------------------- main
\* lines 110-111
ReadOriginal ==
  /\ pc = "m_read"
  /\ backup' = fs.orig.data
  /\ pc' = "m_backup"
  /\ UNCHANGED <<fs, cleaned, printed, scanVars, pass>>

\* the backup written over the original path, not to the .backup path
WriteBackupOverOriginal ==
  /\ pc = "m_backup"
  /\ fs' = [fs EXCEPT !.orig = File(backup)]
  /\ pc' = "c_read"
  /\ UNCHANGED <<mainVars, scanVars, pass>>

\* lines 113-114
WriteBackup ==
  /\ pc = "m_backup"
  /\ fs' = [fs EXCEPT !.backup = File(backup)]
  /\ pc' = "c_read"
  /\ UNCHANGED <<mainVars, scanVars, pass>>

\* lines 120-121
WriteCleaned ==
  /\ pc = "m_write"
  /\ fs' = [fs EXCEPT !.cleaned = File(cleaned)]
  /\ pc' = "m_print"
  /\ UNCHANGED <<mainVars, scanVars, pass>>

\* the difference taken the wrong way round
PrintSummarySwapped ==
  /\ pc = "m_print"
  /\ LET original_lines == SplitCount(backup)
         cleaned_lines == SplitCount(cleaned)
     IN  printed' = [original |-> original_lines,
                     cleaned |-> cleaned_lines,
                     removed |-> cleaned_lines - original_lines,
                     pct |-> PctFormat(cleaned_lines - original_lines,
                                       original_lines)]
  /\ pc' = "exit"
  /\ UNCHANGED <<fs, backup, cleaned, scanVars, pass>>

\* the summary
PrintSummary ==
  /\ pc = "m_print"
  /\ LET original_lines == SplitCount(backup)
         cleaned_lines == SplitCount(cleaned)
     IN  printed' = [original |-> original_lines,
                     cleaned |-> cleaned_lines,
                     removed |-> original_lines - cleaned_lines,
                     pct |-> PctFormat(original_lines - cleaned_lines,
                                       original_lines)]
  /\ pc' = "exit"
  /\ UNCHANGED <<fs, backup, cleaned, scanVars, pass>>

\* an open() or read() raises: nothing is caught, the process ends
ReadFails ==
  /\ pc \in {"m_read", "c_read"}
  /\ pc' = "crashed"
  /\ UNCHANGED <<fs, mainVars, scanVars, pass>>

\* a write raises after the file was opened for writing and truncated: some prefix of the
\* content is on disk
WriteFails ==
  /\ pc \in {"m_backup", "m_write"}
  /\ \E n \in 0..(IF pc = "m_backup" THEN Len(backup) ELSE Len(cleaned)) :
       fs' = IF pc = "m_backup"
             THEN [fs EXCEPT !.backup = File(SubSeq(backup, 1, n))]
             ELSE [fs EXCEPT !.cleaned = File(SubSeq(cleaned, 1, n))]
  /\ pc' = "crashed"
  /\ UNCHANGED <<mainVars, scanVars, pass>>

\* -------------------------------------------------- clean_architecture_doc
\* lines 13-19
ReadLines ==
  /\ pc = "c_read"
  /\ lines' = fs.orig.data
  /\ output' = <<>> /\ in_code_block' = FALSE /\ code_block_start' = -1
  /\ i' = 0 /\ origin' = <<>>
  /\ examined' = {} /\ consumed' = {} /\ span_from' = 0
  /\ pc' = "scan"
  /\ UNCHANGED <<fs, mainVars, line, line_at, k, brace_count, pass>>

\* lines[j]; an index past the end has no line to give (the read would raise)
ReadLine(j) == IF j < Len(lines) THEN lines[j + 1] ELSE NoLine

\* "scan": the while test is next; "for": the for loop goes on after `continue`
AtLine == \/ pc = "scan" /\ i < Len(lines)
          \/ pc = "for"
\* `line` never refreshed at the top of the while loop
CurLineStale == line

CurLine == IF pc = "scan" THEN ReadLine(i) ELSE line
CurAt == IF pc = "scan" THEN i ELSE line_at
CurK == IF pc = "scan" THEN 0 ELSE k

Copy(j) == [src |-> j, what |-> "copy"]

\* the counter started at the number of opening braces of the line
InitialBraceCountAll(l) == CountOpen(l)

\* line 62
InitialBraceCount(l) == IF CountOpen(l) > 0 THEN 1 ELSE 0

\* the inner while stopping one line short of the end of the input
SkipCondShort == i < Len(lines) - 1 /\ brace_count > 0

\* the inner while without its test of i against len(lines)
SkipCondNoBound == brace_count > 0

\* line 63: the test of the inner while
SkipCond == i < Len(lines) /\ brace_count > 0

\* lines 53-62: the next class of the list whose declaration is in `line`
ClassMatch ==
  /\ AtLine
  /\ NextMatch(CurLine, CurK) # 0
  /\ LET m == NextMatch(CurLine, CurK) IN
       /\ k' = m
       /\ output' = Append(output, ClassPlaceholder(remove_classes[m]))
       /\ origin' = Append(origin, [src |-> CurAt, what |-> "class"])
  /\ line' = CurLine /\ line_at' = CurAt
  /\ examined' = examined \cup {CurAt}
  /\ i' = i + 1
  /\ span_from' = i + 1
  /\ brace_count' = InitialBraceCount(CurLine)
  /\ pc' = "skip"
  /\ UNCHANGED <<fs, mainVars, lines, in_code_block, code_block_start,
                 consumed, pass>>

\* the inner while without its i += 1
SkipLineNoAdvance ==
  /\ pc = "skip"
  /\ SkipCond
  /\ brace_count' = brace_count + CountOpen(ReadLine(i)) - CountClose(ReadLine(i))
  /\ consumed' = consumed \cup {i}
  /\ i' = i
  /\ UNCHANGED <<fs, pc, mainVars, lines, output, in_code_block,
                 code_block_start, line, line_at, k, origin, examined,
                 span_from, pass>>

\* lines 63-68: one iteration of the inner while
SkipLine ==
  /\ pc = "skip"
  /\ SkipCond
  /\ brace_count' = brace_count + CountOpen(ReadLine(i)) - CountClose(ReadLine(i))
  /\ consumed' = consumed \cup {i}
  /\ i' = i + 1
  /\ UNCHANGED <<fs, pc, mainVars, lines, output, in_code_block,
                 code_block_start, line, line_at, k, origin, examined,
                 span_from, pass>>

\* line 69: the inner while is over; `continue` takes the for loop to the
\* next class name
Continue ==
  /\ pc = "skip"
  /\ ~SkipCond
  /\ pc' = "for"
  /\ UNCHANGED <<fs, mainVars, scanVars, pass>>

\* lines 72-77
FenceOpen ==
  /\ AtLine
  /\ NextMatch(CurLine, CurK) = 0
  /\ IsCsFence(CurLine)
  /\ in_code_block' = TRUE
  /\ code_block_start' = Len(output)
  /\ output' = Append(output, CurLine)
  /\ origin' = Append(origin, Copy(CurAt))
  /\ line' = CurLine /\ line_at' = CurAt
  /\ examined' = examined \cup {CurAt}
  /\ i' = i + 1
  /\ pc' = "scan"
  /\ UNCHANGED <<fs, mainVars, lines, k, brace_count, consumed, span_from,
                 pass>>

\* the truncation keeping the opening marker: output[:code_block_start + 1]
FenceCloseKeepsMarker ==
  /\ AtLine
  /\ NextMatch(CurLine, CurK) = 0
  /\ ~IsCsFence(CurLine)
  /\ in_code_block /\ HasFence(CurLine)
  /\ in_code_block' = FALSE
  /\ LET block_content == SubSeq(output, code_block_start + 2, Len(output))
         has_impl == HasImpl(block_content)
     IN  IF has_impl /\ Len(output) - code_block_start > Threshold
         THEN /\ output' = Append(SubSeq(output, 1, code_block_start + 1),
                                  FencePlaceholder)
              /\ origin' = Append(SubSeq(origin, 1, code_block_start + 1),
                                  [src |-> CurAt, what |-> "fence"])
         ELSE /\ output' = Append(output, CurLine)
              /\ origin' = Append(origin, Copy(CurAt))
  /\ line' = CurLine /\ line_at' = CurAt
  /\ examined' = examined \cup {CurAt}
  /\ i' = i + 1
  /\ pc' = "scan"
  /\ UNCHANGED <<fs, mainVars, lines, code_block_start, k, brace_count,
                 consumed, span_from, pass>>

\* lines 79-98
FenceClose ==
  /\ AtLine
  /\ NextMatch(CurLine, CurK) = 0
  /\ ~IsCsFence(CurLine)
  /\ in_code_block /\ HasFence(CurLine)
  /\ in_code_block' = FALSE
  /\ LET block_content == SubSeq(output, code_block_start + 2, Len(output))
         has_impl == HasImpl(block_content)
     IN  IF has_impl /\ Len(output) - code_block_start > Threshold
         THEN /\ output' = Append(SubSeq(output, 1, code_block_start),
                                  FencePlaceholder)
              /\ origin' = Append(SubSeq(origin, 1, code_block_start),
                                  [src |-> CurAt, what |-> "fence"])
         ELSE /\ output' = Append(output, CurLine)
              /\ origin' = Append(origin, Copy(CurAt))
  /\ line' = CurLine /\ line_at' = CurAt
  /\ examined' = examined \cup {CurAt}
  /\ i' = i + 1
  /\ pc' = "scan"
  /\ UNCHANGED <<fs, mainVars, lines, code_block_start, k, brace_count,
                 consumed, span_from, pass>>

\* lines 100-102
AppendLine ==
  /\ AtLine
  /\ NextMatch(CurLine, CurK) = 0
  /\ ~IsCsFence(CurLine)
  /\ ~(in_code_block /\ HasFence(CurLine))
  /\ output' = Append(output, CurLine)
  /\ origin' = Append(origin, Copy(CurAt))
  /\ line' = CurLine /\ line_at' = CurAt
  /\ examined' = examined \cup {CurAt}
  /\ i' = i + 1
  /\ pc' = "scan"
  /\ UNCHANGED <<fs, mainVars, lines, in_code_block, code_block_start, k,
                 brace_count, consumed, span_from, pass>>

\* line 104, and line 117 in main
Return ==
  /\ pc = "scan"
  /\ ~(i < Len(lines))
  /\ IF pass = 1
     THEN cleaned' = output /\ pc' = "m_write"
     ELSE cleaned' = cleaned /\ pc' = "rerun_done"
  /\ UNCHANGED <<fs, backup, printed, scanVars, pass>>

\* the filter run on the cleaned file it produced
Rerun ==
  /\ pc = "exit" /\ pass = 1
  /\ pass' = 2
  /\ lines' = fs.cleaned.data
  /\ output' = <<>> /\ in_code_block' = FALSE /\ code_block_start' = -1
  /\ i' = 0 /\ origin' = <<>>
  /\ examined' = {} /\ consumed' = {} /\ span_from' = 0
  /\ pc' = "scan"
  /\ UNCHANGED <<fs, mainVars, line, line_at, k, brace_count>>

Next ==
  \/ ReadOriginal \/ WriteBackup \/ ReadLines
  \/ ClassMatch \/ SkipLine \/ Continue
  \/ FenceOpen \/ FenceClose \/ AppendLine
  \/ Return \/ WriteCleaned \/ PrintSummary
  \/ ReadFails \/ WriteFails

Spec == Init /\ [][Next]_vars

NextRerun == Next \/ Rerun

SpecRerun == Init /\ [][NextRerun]_vars

\* ------------------------------------------------------------ sanity checks
TypeOK ==
  /\ pc \in {"m_read", "m_backup", "c_read", "scan", "skip", "for",
             "m_write", "m_print", "exit", "crashed", "rerun_done"}
  /\ i \in 0..(Len(lines) + Len(remove_classes) + 1)
  /\ Len(origin) = Len(output)
  /\ code_block_start \in -1..Len(output)
  /\ pass \in {1, 2}

\* every chunk of a file but the last ends with a newline, so readlines()
\* gives back the chunks
ChunksAreLines ==
  /\ \A j \in 1..(Len(output) - 1) : output[j].nl
  /\ \A j \in 1..(Len(lines) - 1) : lines[j].nl

\* ------------------------------------------------------ document structure
NumLines == Len(lines)
LineAt(j) == lines[j + 1]                       \* 0-based, as lines[j]

\* the filter pass has returned
Returned == pc \in {"m_write", "m_print", "exit", "rerun_done"}

Emitted(j) == \E n \in 1..Len(origin) : origin[n] = Copy(j)
ClassPlaceholders(j) ==
  {n \in 1..Len(origin) : origin[n] = [src |-> j, what |-> "class"]}
FencePlaceholders(j) ==
  {n \in 1..Len(origin) : origin[n] = [src |-> j, what |-> "fence"]}

IsDecl(l) == NextMatch(l, 0) # 0

\* brace depth of the document after line e, counted from line j
RECURSIVE Depth(_, _)
Depth(j, e) ==
  IF e < j THEN 0
  ELSE Depth(j, e - 1) + CountOpen(LineAt(e)) - CountClose(LineAt(e))

\* the class body that opens on line j closes on line e
ClosesAt(j, e) ==
  /\ e > j /\ Depth(j, e) = 0
  /\ \A x \in j..(e - 1) : Depth(j, x) > 0

Balanced(j) == \E e \in (j + 1)..(NumLines - 1) : ClosesAt(j, e)
SpanEnd(j) == CHOOSE e \in (j + 1)..(NumLines - 1) : ClosesAt(j, e)

\* line j lies after a recognized opening marker and not after its closing
\* marker, going by the markers of the document alone
RECURSIVE DocInFence(_)
DocInFence(j) ==
  IF j = 0 THEN FALSE
  ELSE IF IsCsFence(LineAt(j - 1)) THEN TRUE
  ELSE IF HasFence(LineAt(j - 1)) THEN FALSE
  ELSE DocInFence(j - 1)

\* a recognized fenced block: opening marker on line o, closing marker on c
FenceBlock(o, c) ==
  /\ 0 <= o /\ o < c /\ c < NumLines
  /\ IsCsFence(LineAt(o)) /\ ~DocInFence(o)
  /\ HasFence(LineAt(c)) /\ ~IsCsFence(LineAt(c))
  /\ \A x \in (o + 1)..(c - 1) : ~HasFence(LineAt(x))

FenceBlocks == {b \in (0..(NumLines - 1)) \X (0..(NumLines - 1)) :
                  FenceBlock(b[1], b[2])}

\* lines a..b stand in the output, unchanged and next to each other
Verbatim(a, b) ==
  \E n \in 1..Len(origin) :
     /\ n + (b - a) <= Len(origin)
     /\ \A x \in 0..(b - a) :
          origin[n + x] = Copy(a + x) /\ output[n + x] = LineAt(a + x)

\* none of lines a..b is in the output
Absent(a, b) == \A x \in a..b : ~Emitted(x)

BodyHasImpl(o, c) == HasImpl(SubSeq(lines, o + 2, c))

\* ------------------------------------------------------------------ claims

\* C1: a removal-set class declaration line with an opening brace and a
\* brace-balanced body, once the class rule has fired on it, is replaced with
\* its whole span (declaration line through the line of the matching closing
\* brace) by exactly one placeholder: the output holds one placeholder for the
\* declaration and none of the lines of the span.
C1_SpanReplacedByOnePlaceholder ==
  Returned =>
    \A j \in 0..(NumLines - 1) :
       (/\ IsDecl(LineAt(j)) /\ CountOpen(LineAt(j)) > 0
        /\ Balanced(j)
        /\ ClassPlaceholders(j) # {})
       => /\ Cardinality(ClassPlaceholders(j)) = 1
          /\ Absent(j, SpanEnd(j))

\* C2: every input line that matches no class declaration, was not consumed
\* as part of a class body and is not inside a fence is in the output
\* verbatim, and the copied lines keep their input order.
C2_OtherLinesKept ==
  Returned =>
    /\ \A j \in 0..(NumLines - 1) :
          (/\ ~IsDecl(LineAt(j))
           /\ j \notin consumed
           /\ ~DocInFence(j) /\ ~IsCsFence(LineAt(j)))
          => \E n \in 1..Len(origin) :
                origin[n] = Copy(j) /\ output[n] = LineAt(j)
    /\ \A a, b \in 1..Len(origin) :
          (a < b /\ origin[a].what = "copy" /\ origin[b].what = "copy")
          => origin[a].src < origin[b].src

\* C3: a recognized fenced block whose body has at most 20 lines is in the
\* output verbatim, markers included, whether or not an implementation
\* pattern matches its body (stated for documents without any class
\* declaration line, where the class rule cannot touch the block).
C3_SmallFenceKept ==
  Returned =>
    \A b \in FenceBlocks :
       (/\ \A j \in 0..(NumLines - 1) : ~IsDecl(LineAt(j))
        /\ b[2] - b[1] - 1 <= Threshold)
       => Verbatim(b[1], b[2])

\* C4: a recognized fenced block whose body has more than 20 lines, one of
\* them matching an implementation pattern, is absent from the output, with
\* exactly one fence placeholder in its place (stated for blocks none of
\* whose lines is consumed by a class span).
C4_LargeImplFenceRemoved ==
  Returned =>
    \A b \in FenceBlocks :
       (/\ b[2] - b[1] - 1 > Threshold
        /\ \E x \in (b[1] + 1)..(b[2] - 1) : HasImpl(<<LineAt(x)>>)
        /\ \A x \in b[1]..b[2] : x \notin consumed)
       => /\ Absent(b[1], b[2])
          /\ Cardinality(FencePlaceholders(b[2])) = 1

\* C5: the filter run on its own output returns that output unchanged.
C5_Idempotent == pc = "rerun_done" => output = lines

\* C6: each recognized fenced block is either in the output verbatim or
\* absent from it with one fence placeholder in its place (stated for blocks
\* none of whose lines is consumed by a class span and whose body holds no
\* class declaration).
C6_FenceWholeOrReplaced ==
  Returned =>
    \A b \in FenceBlocks :
       (/\ \A x \in b[1]..b[2] : x \notin consumed /\ ~IsDecl(LineAt(x)))
       => \/ Verbatim(b[1], b[2])
          \/ /\ Absent(b[1], b[2])
             /\ Cardinality(FencePlaceholders(b[2])) = 1

\* C7: no step changes the original; the filter pass starts, and the cleaned
\* file is written, only with the complete backup on disk; and a failure at a
\* later step leaves the complete backup in place.
BackupComplete == fs.backup = File(fs.orig.data)

C7_BackupBeforeEverything ==
  [][/\ fs'.orig = fs.orig
     /\ (pc # "scan" /\ pc' = "scan") => BackupComplete
     /\ fs'.cleaned # fs.cleaned => BackupComplete /\ BackupComplete'
     /\ (pc' = "crashed" /\ pc \notin {"m_read", "m_backup"}) => BackupComplete'
    ]_vars

\* a later step has failed: the write of the cleaned file broke off
C7_Witness ==
  /\ pc = "crashed" /\ fs.cleaned.exists
  /\ BackupComplete /\ fs.orig.data # <<>>

\* C8: the Removed count printed is the number of input lines minus the
\* number of lines of the output buffer.
C8_RemovedIsLineDifference ==
  pc = "exit" => printed.removed = Len(lines) - Len(output)

\* C9: when the class rule fires on a declaration line with an opening brace
\* and the lines after it never bring the brace depth back to 0, the pass
\* still returns, every line after the declaration line was consumed and none
\* of them is in the output.
NeverCloses(j) ==
  \A e \in (j + 1)..(NumLines - 1) : 1 + Depth(j + 1, e) > 0

C10_NoLineSkipped ==
  (pc = "scan" /\ i < NumLines /\ consumed # {}) =>
     \A x \in 0..(i - 1) : x \in examined \/ x \in consumed

\* C11: a line that holds the declaration of more than one class of the
\* removal set gets one placeholder only: no input line ever has two class
\* placeholders in the output.
C11_OnePlaceholderPerLine ==
  \A j \in 0..(NumLines - 1) : Cardinality(ClassPlaceholders(j)) <= 1

\* C12: no line of a removed class span, the declaration line or a consumed
\* body line, goes through the fence rules or the fall-through append: none
\* of them is copied to the output.
C12_SpanLinesNotRescanned ==
  \A n \in 1..Len(origin) :
     origin[n].what = "copy" =>
        /\ origin[n].src \notin consumed
        /\ ClassPlaceholders(origin[n].src) = {}

\* C13: after the class rule has fired on a declaration line without an
\* opening brace, nothing is deleted: every line after the declaration line
\* is read by the main scan (or consumed by a later class span).
C13_BareDeclDropsNothing ==
  Returned =>
    \A j \in 0..(NumLines - 1) :
       (/\ ClassPlaceholders(j) # {}
        /\ CountOpen(LineAt(j)) = 0
        /\ Cardinality(ClassPlaceholders(j)) = 1)
       => \A x \in (j + 1)..(NumLines - 1) : x \in examined \/ x \in consumed

\* C14: while the class rule consumes, the counter is 1 (declaration line
\* with an opening brace, however many) or 0 plus the opening minus the
\* closing braces of the lines consumed so far; a line is consumed only with
\* the counter above 0 before it; and the loop is left only with the counter
\* no longer above 0 or at the end of the input, nothing beyond the cursor
\* having been consumed.
RECURSIVE CountedFrom(_, _)
CountedFrom(x, c) ==
  IF x >= i THEN c = brace_count
  ELSE /\ x \in consumed /\ x < NumLines /\ c > 0
       /\ CountedFrom(x + 1, c + CountOpen(LineAt(x)) - CountClose(LineAt(x)))

LastOpening(out) ==
  CHOOSE p \in 1..Len(out) :
     IsCsFence(out[p]) /\ \A q \in (p + 1)..Len(out) : ~IsCsFence(out[q])

C15_AppendOnlyButFenceCut ==
  [][\/ output' = output
     \/ Len(output') = Len(output) + 1
        /\ SubSeq(output', 1, Len(output)) = output
     \/ /\ AtLine /\ in_code_block
        /\ HasFence(CurLine) /\ ~IsCsFence(CurLine)
        /\ \E p \in 1..Len(output) : IsCsFence(output[p])
        /\ Len(output) - LastOpening(output) + 1 > Threshold
        /\ HasImpl(SubSeq(output, LastOpening(output) + 1, Len(output)))
        /\ output' = Append(SubSeq(output, 1, LastOpening(output) - 1),
                            FencePlaceholder)
    ]_vars

\* a fence was cut out behind lines that stay in the buffer
C15_Witness ==
  /\ Len(output) >= 2
  /\ origin[Len(origin)].what = "fence"
  /\ origin[1].what = "copy"

\* C16: whenever the main scan is about to read a line, in_code_block says
\* whether that line lies inside a recognized fence of the document (stated
\* for runs in which no fence marker was consumed by a class span).
C16_FenceStateFollowsDocument ==
  (/\ pc = "scan" /\ i < NumLines
   /\ \A x \in consumed : ~HasFence(LineAt(x)))
  => in_code_block = DocInFence(i)

\* C17: every step of the scan makes progress: it moves the cursor up, or
\* (the inner loop ending) leaves it and goes back to the for loop; the
\* cursor stays within len(lines) plus one per class name plus one, and the
\* main loop reads each line at most once, so at most len(lines) iterations.
InScan == pc \in {"scan", "skip", "for"}
Remaining == 2 * (NumLines + Len(remove_classes) + 1 - i)
             + (IF pc = "skip" THEN 1 ELSE 0)

C17_ScanTerminates ==
  [][InScan =>
       /\ Remaining >= 0
       /\ InScan' => Remaining' < Remaining
       /\ (pc = "scan" /\ InScan') => (i \notin examined /\ i' > i)
       /\ (pc = "skip" /\ pc' = "skip") => i' > i
       /\ Cardinality(examined) <= NumLines
    ]_vars

\* the pass has returned after both loops ran
C17_Witness ==
  /\ Returned /\ consumed # {} /\ Cardinality(examined) >= 2

\* C18: every index at which a line was read, by the main scan or by the
\* inner loop, lies in 0 .. len(lines)-1, although the cursor goes past
\* len(lines).
C18_ReadsInBounds ==
  \A x \in examined \cup consumed : 0 <= x /\ x < NumLines

\* the cursor ended two past the end of the input
C18_Witness == Returned /\ NumLines > 0 /\ i >= NumLines + 2

\* C19: the output lines that are not placeholders are copies of input
\* lines, each input line copied at most once, in input order; the others
\* are the class and fence placeholders.
\* from output position n on, the copied input indices rise, starting above last
RECURSIVE CopiesRise(_, _)
CopiesRise(n, last) ==
  IF n > Len(origin) THEN TRUE
  ELSE IF origin[n].what = "copy"
       THEN origin[n].src > last /\ CopiesRise(n + 1, origin[n].src)
       ELSE CopiesRise(n + 1, last)

C19_OutputIsSubsequence ==
  /\ Len(origin) = Len(output)
  /\ \A n \in 1..Len(output) :
        IF origin[n].what = "copy"
        THEN /\ origin[n].src \in 0..(NumLines - 1)
             /\ output[n] = LineAt(origin[n].src)
        ELSE output[n].k \in {"// class removed", "// code removed"}
  /\ CopiesRise(1, -1)

\* copies on both sides of a placeholder
C19_Witness ==
  /\ Returned
  /\ \E a, b, c \in 1..Len(output) :
        /\ a < b /\ b < c
        /\ origin[a].what = "copy" /\ origin[b].what # "copy"
        /\ origin[c].what = "copy"

\* C20: when the pass returns more lines than it read, the Removed count
\* printed is negative.
C20_MoreLinesNegativeRemoved ==
  (pc = "exit" /\ Len(output) > Len(lines)) => printed.removed < 0

\* more lines out than in: a placeholder without a deletion
C20_Witness ==
  /\ pc = "exit" /\ Len(output) > Len(lines) /\ Len(lines) > 0
  /\ consumed = {}
====
